---- MODULE Spec2Model ----
(***************************************************************************)
(* Model of inferno/dataset.py: the length resolver (get_len), the        *)
(* type-dispatching indexer (multi_indexing), Dataset and CVSplit.         *)
(*                                                                         *)
(* Python values are records with a tag field:                             *)
(*   None, Scalar (int), Float (tenths), Array (numpy.ndarray), Tensor,    *)
(*   Frame (pandas DataFrame with one named column), Series, Mapping       *)
(*   (dict), List (list/tuple), Slice, Error (a raised exception) and the  *)
(*   objects CVSplit, Dataset, Splitter, Iterable, Tuple4.                 *)
(* Python positions are 0-based; element j of a container is data[j+1].    *)
(***************************************************************************)
EXTENDS Integers, Sequences, FiniteSets, TLC

VARIABLES
    obj,               \* the object under use: None, a CVSplit or a Dataset
    op,                \* the call in progress ("idle" when none)
    argX, argY, argI,  \* the arguments of the call
    ret,               \* what the call returned, or the Error it raised
    trace,             \* what the call did to its collaborators
    torch_list_index   \* does tensor[python list] select rows natively?

vars == <<obj, op, argX, argY, argI, ret, trace, torch_list_index>>

----------------------------------------------------------------------------
(* Bounds *)

MaxLen == 3        \* longest leaf
MaxDepth == 2      \* levels of Mapping / List wrapped around a base container
MaxSeed == 2       \* random states of the shuffling splitters

----------------------------------------------------------------------------
(* Python values *)

NoneV == [tag |-> "None"]
Scalar(n) == [tag |-> "Scalar", v |-> n]
PyFloat(t) == [tag |-> "Float", tenths |-> t]
Arr(d, dt, nd) == [tag |-> "Array", data |-> d, dtype |-> dt, ndim |-> nd]
Tens(d, dt) == [tag |-> "Tensor", data |-> d, dtype |-> dt]
Frame(d) == [tag |-> "Frame", data |-> d]
Series(d) == [tag |-> "Series", data |-> d]
Map(ks, vs) == [tag |-> "Mapping", keys |-> ks, vals |-> vs]
PyList(xs) == [tag |-> "List", items |-> xs]
Slice(a, b) == [tag |-> "Slice", start |-> a, stop |-> b]
Err(k, m) == [tag |-> "Error", kind |-> k, msg |-> m]

IsErr(x) == x.tag = "Error"
HasErr(rs) == \E k \in 1..Len(rs) : IsErr(rs[k])
\* a comprehension evaluates left to right: the first exception is the one raised
FirstErr(rs) ==
    rs[CHOOSE k \in 1..Len(rs) : IsErr(rs[k]) /\ \A j \in 1..(k-1) : ~IsErr(rs[j])]

Min(a, b) == IF a < b THEN a ELSE b
\* the value of an expression, evaluated once: The({ f(x) : x \in {e} })
The(S) == CHOOSE x \in S : TRUE
Range(s) == {s[k] : k \in 1..Len(s)}
Iota(n, base) == [k \in 1..n |-> base + k - 1]
ScalarList(ns) == PyList([k \in 1..Len(ns) |-> Scalar(ns[k])])
IsIntList(i) == i.tag = "List" /\ \A k \in 1..Len(i.items) : i.items[k].tag = "Scalar"
IdxList(i) == [k \in 1..Len(i.items) |-> i.items[k].v]

\* numpy.dtype(int) is the C long; numpy.intp is what nonzero() returns
DefaultIntDtype == "int64"
IntpDtype == "int64"

----------------------------------------------------------------------------
(* Built-in container behaviour: len(x), x[i], x.iloc[i], safe_indexing *)

PyLen(x) ==
    IF x.tag \in {"Array", "Tensor", "Frame", "Series"} THEN Scalar(Len(x.data))
    ELSE IF x.tag = "List" THEN Scalar(Len(x.items))
    ELSE IF x.tag = "Mapping" THEN Scalar(Len(x.keys))
    ELSE Err("TypeError", "object has no len()")

PyPos(j, n) == IF j < 0 THEN j + n ELSE j
ValidPos(j, n) == PyPos(j, n) >= 0 /\ PyPos(j, n) < n
AllValid(ix, n) == \A k \in 1..Len(ix) : ValidPos(ix[k], n)
Take(d, ix) == [k \in 1..Len(ix) |-> d[PyPos(ix[k], Len(d)) + 1]]
Sub(d, sl) ==
    LET a == Min(PyPos(sl.start, Len(d)), Len(d))
        b == Min(PyPos(sl.stop, Len(d)), Len(d))
    IN  SubSeq(d, a + 1, b)

OutOfRange == Err("IndexError", "index out of range")

\* data[i] on the container itself
GetItem(x, i) ==
    IF x.tag = "Array" THEN
        IF i.tag = "Scalar" THEN
            IF ~ValidPos(i.v, Len(x.data)) THEN OutOfRange
            ELSE IF x.ndim = 1 THEN Scalar(Take(x.data, <<i.v>>)[1])
            ELSE Arr(Take(x.data, <<i.v>>), x.dtype, 1)
        ELSE IF i.tag = "Slice" THEN Arr(Sub(x.data, i), x.dtype, x.ndim)
        ELSE IF IsIntList(i) THEN
            IF AllValid(IdxList(i), Len(x.data))
            THEN Arr(Take(x.data, IdxList(i)), x.dtype, x.ndim)
            ELSE OutOfRange
        ELSE Err("IndexError", "invalid index")
    ELSE IF x.tag = "List" THEN
        IF i.tag = "Scalar" THEN
            IF ValidPos(i.v, Len(x.items)) THEN Take(x.items, <<i.v>>)[1]
            ELSE OutOfRange
        ELSE IF i.tag = "Slice" THEN PyList(Sub(x.items, i))
        ELSE Err("TypeError", "list indices must be integers or slices")
    ELSE IF x.tag = "Tensor" THEN
        IF i.tag = "Scalar" THEN
            IF ValidPos(i.v, Len(x.data)) THEN Scalar(Take(x.data, <<i.v>>)[1])
            ELSE OutOfRange
        ELSE IF i.tag = "Slice" THEN Tens(Sub(x.data, i), x.dtype)
        ELSE IF i.tag = "Tensor" /\ i.dtype = "long" THEN
            IF AllValid(i.data, Len(x.data)) THEN Tens(Take(x.data, i.data), x.dtype)
            ELSE OutOfRange
        ELSE IF IsIntList(i) /\ torch_list_index THEN
            IF AllValid(IdxList(i), Len(x.data))
            THEN Tens(Take(x.data, IdxList(i)), x.dtype)
            ELSE OutOfRange
        ELSE Err("TypeError", "indexing a tensor with an object of this type")
    ELSE IF x.tag = "Frame" THEN
        \* frame[...] is label based, except for slices, which cut rows
        IF i.tag = "Slice" THEN Frame(Sub(x.data, i))
        ELSE Err("KeyError", "not a column label")
    ELSE IF x.tag = "Mapping" THEN
        IF i.tag = "Scalar" THEN Err("KeyError", "not a key")
        ELSE Err("TypeError", "unhashable type")
    ELSE Err("TypeError", "object is not subscriptable")

\* data.iloc[i]: positional row selection
Iloc(x, i) ==
    IF i.tag = "Scalar" THEN
        IF ValidPos(i.v, Len(x.data)) THEN Series(Take(x.data, <<i.v>>))
        ELSE OutOfRange
    ELSE IF i.tag = "Slice" THEN Frame(Sub(x.data, i))
    ELSE IF IsIntList(i) THEN
        IF AllValid(IdxList(i), Len(x.data)) THEN Frame(Take(x.data, IdxList(i)))
        ELSE OutOfRange
    ELSE Err("TypeError", "cannot do positional indexing with this indexer")

\* sklearn.utils.safe_indexing(X, indices)
safe_indexing(X, indices) ==
    LET isIdx == (indices.tag = "Array" /\ indices.dtype \in {"int64", "int32"})
                    \/ IsIntList(indices)
        ix == IF indices.tag = "Array" THEN indices.data ELSE IdxList(indices)
    IN  IF ~isIdx THEN Err("TypeError", "indices are not integer positions")
        ELSE IF X.tag \in {"Frame", "Array"} THEN
            \* hasattr(X, "iloc") or hasattr(X, "shape")
            IF ~AllValid(ix, Len(X.data)) THEN OutOfRange
            ELSE IF X.tag = "Frame" THEN Frame(Take(X.data, ix))
            ELSE Arr(Take(X.data, ix), X.dtype, X.ndim)
        ELSE
            \* [X[idx] for idx in indices]
            LET rs == [k \in 1..Len(ix) |-> GetItem(X, Scalar(ix[k]))]
            IN  IF HasErr(rs) THEN FirstErr(rs) ELSE PyList(rs)

----------------------------------------------------------------------------
(* inferno.utils: flatten, to_numpy, to_tensor *)

RECURSIVE flatten(_)
flatten(arr) ==
    LET xs == IF arr.tag = "Mapping" THEN arr.vals ELSE arr.items
        F[k \in 0..Len(xs)] ==
            IF k = 0 THEN <<>>
            ELSE IF xs[k].tag \in {"List", "Mapping"} THEN F[k-1] \o flatten(xs[k])
            ELSE Append(F[k-1], xs[k])
    IN  F[Len(xs)]

\* to_numpy: tensors and frames become arrays, anything else has no such form
to_numpy(X) ==
    IF X.tag = "Tensor" THEN Arr(X.data, IF X.dtype = "long" THEN "int64" ELSE "float64", 1)
    ELSE IF X.tag = "Array" THEN X
    ELSE IF X.tag \in {"Frame", "Series"} THEN Arr(X.data, "int64", 1)
    ELSE Err("AttributeError", "object cannot be converted to an array")

\* to_tensor: arrays, frames and lists of numbers become tensors of the same
\* rows; dicts and lists of containers are converted value by value
RECURSIVE to_tensor(_)
to_tensor(X) ==
    IF X.tag = "Mapping" THEN
        LET rs == [k \in 1..Len(X.vals) |-> to_tensor(X.vals[k])]
        IN  IF HasErr(rs) THEN FirstErr(rs) ELSE Map(X.keys, rs)
    ELSE IF X.tag = "List" /\ IsIntList(X) THEN Tens(IdxList(X), "long")
    ELSE IF X.tag = "List" THEN
        LET rs == [k \in 1..Len(X.items) |-> to_tensor(X.items[k])]
        IN  IF HasErr(rs) THEN FirstErr(rs) ELSE PyList(rs)
    ELSE IF X.tag = "Tensor" THEN X
    ELSE IF X.tag \in {"Array", "Frame", "Series"} THEN
        Tens(X.data, IF X.tag = "Array" /\ X.dtype = "float64" THEN "float" ELSE "long")
    ELSE IF X.tag = "Scalar" THEN Tens(<<X.v>>, "long")
    ELSE Err("TypeError", "cannot convert this type to a tensor")

----------------------------------------------------------------------------
(* _apply_to_data with func = len, and get_len *)

RECURSIVE _apply_to_data(_, _)
_apply_to_data(data, unpack_dict) ==
    IF data.tag = "Mapping" THEN
        LET rs == [k \in 1..Len(data.vals) |-> _apply_to_data(data.vals[k], unpack_dict)]
        IN  IF HasErr(rs) THEN FirstErr(rs)
            ELSE IF unpack_dict THEN PyList(rs)
            ELSE Map(data.keys, rs)
    ELSE IF data.tag = "List" THEN
        LET rs == [k \in 1..Len(data.items) |-> _apply_to_data(data.items[k], unpack_dict)]
        IN  IF ~HasErr(rs) THEN PyList(rs)
            ELSE IF FirstErr(rs).kind = "TypeError" THEN PyLen(data)
            ELSE FirstErr(rs)
    ELSE PyLen(data)

InconsistentLengths == Err("ValueError", "Dataset does not have consistent lengths.")

\* the length of the first leaf, without the comparison of the leaves
get_len_first(data) ==
    LET applied == _apply_to_data(data, TRUE)
    IN  IF IsErr(applied) THEN applied
        ELSE LET lens == flatten(PyList(<<applied>>))
             IN  IF Len(lens) = 0 THEN InconsistentLengths ELSE lens[1]

get_len(data) ==
    LET applied == _apply_to_data(data, TRUE)
    IN  IF IsErr(applied) THEN applied
        ELSE LET lens == flatten(PyList(<<applied>>))
                 len_set == {lens[k].v : k \in 1..Len(lens)}
             IN  IF Cardinality(len_set) # 1 THEN InconsistentLengths
                 ELSE Scalar(CHOOSE n \in len_set : TRUE)

----------------------------------------------------------------------------
(* multi_indexing *)

Nonzero(d) ==
    LET F[k \in 0..Len(d)] ==
            IF k = 0 THEN <<>>
            ELSE IF d[k] # 0 THEN Append(F[k-1], k - 1) ELSE F[k-1]
    IN  F[Len(d)]

BadIndexType ==
    Err("IndexError", "arrays used as indices must be of integer (or boolean) type")

\* lines 82-89: the normalisation of an array index
NormalizeIndex(i) ==
    IF i.tag = "Array" THEN
        LET i1 == IF i.dtype = "bool" THEN Arr(Nonzero(i.data), IntpDtype, 1) ELSE i
        IN  IF i1.dtype = DefaultIntDtype THEN ScalarList(i1.data)
            ELSE BadIndexType
    ELSE i

\* lines 91-93: the dictionary of containers
IndexMapping(data, i) ==
    LET rs == [k \in 1..Len(data.vals) |-> GetItem(data.vals[k], i)]
    IN  IF HasErr(rs) THEN FirstErr(rs) ELSE Map(data.keys, rs)

\* lines 100-111: the dispatch on a single container
IndexLeaf(data, i) ==
    IF data.tag = "Tensor" THEN
        GetItem(data, IF i.tag = "List" THEN Tens(IdxList(i), "long") ELSE i)
    ELSE IF data.tag \in {"Frame", "Series"} THEN Iloc(data, i)
    ELSE IF i.tag \in {"Scalar", "Slice"} THEN GetItem(data, i)
    ELSE safe_indexing(data, i)

RECURSIVE multi_indexing(_, _)
multi_indexing(data, i0) ==
    LET i == NormalizeIndex(i0)
    IN  IF IsErr(i) THEN i
        ELSE IF data.tag = "Mapping" THEN IndexMapping(data, i)
        ELSE IF data.tag = "List" THEN
            LET rs == [k \in 1..Len(data.items) |-> multi_indexing(data.items[k], i)]
            IN  IF ~HasErr(rs) THEN PyList(rs)
                ELSE IF FirstErr(rs).kind = "TypeError" THEN IndexLeaf(data, i)
                ELSE FirstErr(rs)
        ELSE IndexLeaf(data, i)

----------------------------------------------------------------------------
(* Dataset *)

Unset == [tag |-> "Unset"]

LengthMismatch == Err("ValueError", "X and y have inconsistent lengths.")

\* the constructor without the comparison of the two lengths
Dataset_init_nocheck(X, y, use_cuda, length) ==
    LET self == [tag |-> "Dataset", X |-> X, y |-> y, use_cuda |-> use_cuda,
                 _len |-> Unset, _length |-> Unset]
    IN  IF length # NoneV THEN [self EXCEPT !._length = length]
        ELSE IF IsErr(get_len(X)) THEN get_len(X)
        ELSE [self EXCEPT !._len = get_len(X)]

Dataset_init(X, y, use_cuda, length) ==
    LET self == [tag |-> "Dataset", X |-> X, y |-> y, use_cuda |-> use_cuda,
                 _len |-> Unset, _length |-> Unset]
    IN  IF length # NoneV THEN [self EXCEPT !._length = length]
        ELSE LET len_X == get_len(X)
                 len_y == get_len(y)
             IN  IF IsErr(len_X) THEN len_X
                 ELSE IF y # NoneV /\ IsErr(len_y) THEN len_y
                 ELSE IF y # NoneV /\ len_y # len_X THEN LengthMismatch
                 ELSE [self EXCEPT !._len = len_X]

Dataset_len(self) ==
    IF self._len = Unset
    THEN Err("AttributeError", "'Dataset' object has no attribute '_len'")
    ELSE self._len

\* a placeholder one element too long
Zeros_long(n) == [k \in 1..(n + 1) |-> 0]

\* torch.zeros(n)
Zeros(n) == [k \in 1..n |-> 0]

Dataset_getitem(self, i) ==
    LET X == IF self.X.tag = "Frame"
             THEN Map(<<"col">>, <<Arr(self.X.data, "int64", 2)>>)
             ELSE self.X
        Placeholder(xi) ==
            The({ IF IsErr(n) THEN n ELSE Tens(Zeros(n.v), "float") : n \in {get_len(xi)} })
        Tensors(xi, yi) ==
            The({ IF IsErr(tx) THEN tx
                  ELSE IF IsErr(ty) THEN ty
                  ELSE [tag |-> "Tuple2", X |-> tx, y |-> ty]
                  : tx \in {to_tensor(xi)}, ty \in {to_tensor(yi)} })
    IN  The({ IF IsErr(xi) THEN xi
              ELSE The({ IF IsErr(yi) THEN yi ELSE Tensors(xi, yi)
                         : yi \in {IF self.y = NoneV THEN Placeholder(xi)
                                   ELSE multi_indexing(self.y, i)} })
              : xi \in {multi_indexing(X, i)} })

----------------------------------------------------------------------------
(* sklearn.model_selection: splitters, check_cv, type_of_target, split *)

Splitter(kind, n_splits, test_size, pairs) ==
    [tag |-> "Splitter", kind |-> kind, n_splits |-> n_splits,
     test_size |-> test_size, pairs |-> pairs]
Iterable(pairs) == [tag |-> "Iterable", pairs |-> pairs]
Pair(tr, va, dt) == [train |-> Arr(tr, dt, 1), valid |-> Arr(va, dt, 1)]

\* sklearn's type_of_target, by element type: an integer array or list holds
\* class labels, a float64 array stands for non-integral (continuous) values,
\* a dict is no array-like at all
type_of_target(y) ==
    IF y.tag = "Array" THEN
        (IF y.dtype = "float64" THEN "continuous" ELSE "multiclass")
    ELSE IF y.tag \in {"Frame", "Series"} THEN "multiclass"
    ELSE IF y.tag = "List" THEN
        (IF IsIntList(y) /\ Len(y.items) > 0 THEN "multiclass" ELSE "unknown")
    ELSE "invalid"

sk_check_cv(cv0, y, classifier) ==
    LET cv == IF cv0 = NoneV THEN Scalar(3) ELSE cv0
    IN  IF cv.tag = "Scalar" THEN
            IF classifier /\ y # NoneV /\ type_of_target(y) = "invalid"
            THEN Err("ValueError", "Expected array-like")
            ELSE IF cv.v <= 1
            THEN Err("ValueError", "k-fold cross-validation requires at least one split")
            ELSE IF classifier /\ y # NoneV /\ type_of_target(y) = "multiclass"
            THEN Splitter("StratifiedKFold", cv.v, 0, <<>>)
            ELSE Splitter("KFold", cv.v, 0, <<>>)
        ELSE IF cv.tag = "Splitter" THEN cv
        ELSE IF cv.tag = "Iterable" THEN Splitter("Wrapper", Len(cv.pairs), 0, cv.pairs)
        ELSE Err("ValueError", "Expected cv as an integer, cross-validation object or an iterable")

NumSamples(X) ==
    IF X.tag \in {"Array", "Frame", "Series", "List"} THEN PyLen(X)
    ELSE Err("TypeError", "Expected sequence or array-like")

FoldSize(n, k, j) == (n \div k) + (IF j <= n % k THEN 1 ELSE 0)
FoldStart(n, k, j) == (j - 1) * (n \div k) + Min(j - 1, n % k)
Fold(n, k, j) ==
    LET lo == FoldStart(n, k, j)
        hi == lo + FoldSize(n, k, j)
    IN  Pair(SelectSeq(Iota(n, 0), LAMBDA p : p < lo \/ p >= hi),
             SelectSeq(Iota(n, 0), LAMBDA p : p >= lo /\ p < hi), DefaultIntDtype)

Rotate(n, r) == [k \in 1..n |-> (k - 1 + r) % n]
Shuffled(n, n_test, r) ==
    Pair(SubSeq(Rotate(n, r), n_test + 1, n), SubSeq(Rotate(n, r), 1, n_test),
         DefaultIntDtype)

\* The folds of KFold are the contiguous blocks sklearn cuts; StratifiedKFold
\* is given the same blocks. The shuffling splitters are given one rotation of
\* the positions per random state and split; a fraction that leaves no train
\* or no test sample is refused when the pairs are asked for.
Generator(pairs) == [tag |-> "Generator", items |-> pairs]

\* cv.split(X, labels): a generator of every pair the splitter yields, in order
SplitPairs(cv, X, labels, seed) ==
    LET n == NumSamples(X).v
        strat == cv.kind \in {"StratifiedKFold", "StratifiedShuffleSplit"}
        n_test == (cv.test_size * n + 9) \div 10
    IN  IF cv.kind = "Wrapper" THEN Generator(cv.pairs)
        ELSE IF IsErr(NumSamples(X)) THEN NumSamples(X)
        ELSE IF strat /\ (labels = NoneV \/ type_of_target(labels) # "multiclass")
        THEN Err("ValueError", "Supported target types are: ('binary', 'multiclass')")
        ELSE IF strat /\ NumSamples(labels).v # n
        THEN Err("ValueError", "Found input variables with inconsistent numbers of samples")
        ELSE IF cv.kind \in {"KFold", "StratifiedKFold"} THEN
            IF cv.n_splits > n
            THEN Err("ValueError", "Cannot have number of splits greater than the number of samples")
            ELSE Generator([j \in 1..cv.n_splits |-> Fold(n, cv.n_splits, j)])
        ELSE
            IF n_test <= 0 \/ n_test >= n
            THEN Err("ValueError", "test_size does not leave a train and a test set")
            ELSE Generator([j \in 1..cv.n_splits |-> Shuffled(n, n_test, seed + j - 1)])

\* a loop over the generator that keeps the last pair instead of the first
PyNext_last(gen) ==
    IF Len(gen.items) = 0 THEN [item |-> Err("StopIteration", ""), taken |-> 0]
    ELSE [item |-> [tag |-> "Pair", train |-> gen.items[Len(gen.items)].train,
                    valid |-> gen.items[Len(gen.items)].valid],
          taken |-> Len(gen.items)]

\* next(iter(generator))
PyNext(gen) ==
    IF Len(gen.items) = 0 THEN [item |-> Err("StopIteration", ""), taken |-> 0]
    ELSE [item |-> [tag |-> "Pair", train |-> gen.items[1].train,
                    valid |-> gen.items[1].valid],
          taken |-> 1]

----------------------------------------------------------------------------
(* CVSplit *)

NotPositive == Err("ValueError", "Numbers less than 0 are not allowed for cv")
NotStratifiable == Err("ValueError", "Stratified CV not possible with given y.")

IsNumber(cv) == cv.tag \in {"Scalar", "Float"}
\* cv < 0 in place of cv <= 0
NumLeqZero_strict(cv) == IF cv.tag = "Scalar" THEN cv.v < 0 ELSE cv.tenths < 0

NumLeqZero(cv) == IF cv.tag = "Scalar" THEN cv.v <= 0 ELSE cv.tenths <= 0

CVSplit_init(cv, stratified) ==
    IF IsNumber(cv) /\ NumLeqZero(cv) THEN NotPositive
    ELSE [tag |-> "CVSplit", cv |-> cv, stratified |-> stratified]

\* every splitter object passes for stratified
_is_stratified_any(cv) == cv.tag = "Splitter"

_is_stratified(cv) ==
    cv.tag = "Splitter" /\ cv.kind \in {"StratifiedKFold", "StratifiedShuffleSplit"}

_is_float(self, x) ==
    IF ~IsNumber(self.cv) THEN FALSE
    ELSE IF self.cv.tag = "Scalar" THEN FALSE
    ELSE self.cv.tenths % 10 # 0

_check_cv_float(self, y) ==
    LET cv_cls == IF self.stratified THEN "StratifiedShuffleSplit" ELSE "ShuffleSplit"
    IN  sk_check_cv(Splitter(cv_cls, 10, self.cv.tenths, <<>>), y, self.stratified)

_check_cv_non_float(self, y) == sk_check_cv(self.cv, y, self.stratified)

check_cv(self, y) ==
    LET y_arr == IF self.stratified
                 THEN (IF IsErr(to_numpy(y)) /\ to_numpy(y).kind = "AttributeError"
                       THEN y ELSE to_numpy(y))
                 ELSE NoneV
    IN  IF IsErr(y_arr) THEN y_arr
        ELSE IF _is_float(self, self.cv) THEN _check_cv_float(self, y_arr)
        ELSE _check_cv_non_float(self, y_arr)

_is_regular(x) == x = NoneV \/ x.tag = "Array" \/ x.tag \in {"Frame", "Series"}

\* what a call did: the splitter it resolved, the path it took, how often it
\* asked the splitter for pairs and with which labels, how many pairs it pulled,
\* the pair it used and how many selections it started
NoTrace ==
    [cv |-> NoneV, path |-> "none", asked |-> 0, labels_passed |-> FALSE,
     labels |-> NoneV, taken |-> 0, pair |-> NoneV, indexed |-> 0]
Raised(e, tr) == [ret |-> e, trace |-> tr]

\* line 276: args = (X, y) if self.stratified else (X,)
regular_args(self, y) ==
    [passed |-> self.stratified, labels |-> IF self.stratified THEN y ELSE NoneV]

\* the fallback path never handing labels to the splitter
special_args_never(cv, y) == [passed |-> FALSE, labels |-> NoneV]

\* lines 292-295: args = (arange,) + (to_numpy(y),) if self._is_stratified(cv)
special_args(cv, y) ==
    [passed |-> _is_stratified(cv),
     labels |-> IF _is_stratified(cv) THEN to_numpy(y) ELSE NoneV]

regular_cv(self, X, y, cv, seed) ==
    LET args == regular_args(self, y)
        t1 == [NoTrace EXCEPT !.asked = 1, !.labels_passed = args.passed,
                              !.labels = args.labels]
        Index(nx) ==
            LET t2 == [t1 EXCEPT !.taken = nx.taken, !.pair = nx.item]
                X_train == safe_indexing(X, nx.item.train)
                X_valid == safe_indexing(X, nx.item.valid)
                y_train == IF y = NoneV THEN NoneV ELSE safe_indexing(y, nx.item.train)
                y_valid == IF y = NoneV THEN NoneV ELSE safe_indexing(y, nx.item.valid)
            IN  IF IsErr(X_train) THEN Raised(X_train, [t2 EXCEPT !.indexed = 1])
                ELSE IF IsErr(X_valid) THEN Raised(X_valid, [t2 EXCEPT !.indexed = 2])
                ELSE IF IsErr(y_train) THEN Raised(y_train, [t2 EXCEPT !.indexed = 3])
                ELSE IF IsErr(y_valid) THEN Raised(y_valid, [t2 EXCEPT !.indexed = 4])
                ELSE [ret |-> [tag |-> "Tuple4", X_train |-> X_train, X_valid |-> X_valid,
                               y_train |-> y_train, y_valid |-> y_valid],
                      trace |-> [t2 EXCEPT !.indexed = IF y = NoneV THEN 2 ELSE 4]]
    IN  The({ IF IsErr(gen) THEN Raised(gen, t1)
              ELSE The({ IF IsErr(nx.item)
                         THEN Raised(nx.item, [t1 EXCEPT !.taken = nx.taken])
                         ELSE Index(nx)
                         : nx \in {PyNext(gen)} })
              : gen \in {SplitPairs(cv, X, args.labels, seed)} })

special_cv(self, X, y, cv, seed) ==
    LET args == special_args(cv, y)
        t1 == [NoTrace EXCEPT !.asked = 1, !.labels_passed = args.passed,
                              !.labels = args.labels]
        Index(dataset, nx) ==
            LET t2 == [t1 EXCEPT !.taken = nx.taken, !.pair = nx.item]
            IN  The({ IF IsErr(train) THEN Raised(train, [t2 EXCEPT !.indexed = 1])
                      ELSE The({ IF IsErr(valid)
                                 THEN Raised(valid, [t2 EXCEPT !.indexed = 2])
                                 ELSE [ret |-> [tag |-> "Tuple4",
                                                X_train |-> train.X, X_valid |-> valid.X,
                                                y_train |-> train.y, y_valid |-> valid.y],
                                       trace |-> [t2 EXCEPT !.indexed = 2]]
                                 : valid \in {Dataset_getitem(dataset, nx.item.valid)} })
                      : train \in {Dataset_getitem(dataset, nx.item.train)} })
        Split(dataset, num_samples) ==
            The({ IF IsErr(gen) THEN Raised(gen, t1)
                  ELSE The({ IF IsErr(nx.item)
                             THEN Raised(nx.item, [t1 EXCEPT !.taken = nx.taken])
                             ELSE Index(dataset, nx)
                             : nx \in {PyNext(gen)} })
                  : gen \in {SplitPairs(cv, Arr(Iota(num_samples.v, 0), DefaultIntDtype, 1),
                                        args.labels, seed)} })
    IN  The({ IF IsErr(dataset) THEN Raised(dataset, NoTrace)
              ELSE IF IsErr(Dataset_len(dataset)) THEN Raised(Dataset_len(dataset), NoTrace)
              ELSE IF IsErr(args.labels) THEN Raised(args.labels, NoTrace)
              ELSE Split(dataset, Dataset_len(dataset))
              : dataset \in {Dataset_init(X, y, FALSE, NoneV)} })

CVSplit_call(self, X, y, seed) ==
    LET regular == _is_regular(X) /\ _is_regular(y)
        Run(cv) ==
            The({ [ret |-> r.ret,
                   trace |-> [r.trace EXCEPT !.cv = cv,
                                             !.path = IF regular THEN "regular"
                                                      ELSE "special"]]
                  : r \in {IF regular THEN regular_cv(self, X, y, cv, seed)
                           ELSE special_cv(self, X, y, cv, seed)} })
    IN  The({ IF IsErr(cv) THEN Raised(cv, NoTrace)
              ELSE IF self.stratified /\ ~_is_stratified(cv)
              THEN Raised(NotStratifiable, [NoTrace EXCEPT !.cv = cv])
              ELSE Run(cv)
              : cv \in {check_cv(self, y)} })

----------------------------------------------------------------------------
(* Inputs *)

Lens == 0..MaxLen
Values(n) == Iota(n, 10)

LeavesOf(n) ==
    { Arr(Values(n), "int64", 1), Tens(Values(n), "float"), Frame(Values(n)),
      ScalarList(Values(n)) }
Leaves == UNION {LeavesOf(n) : n \in Lens}
PairLeaves == { Arr(Values(MaxLen), "int64", 1), Tens(Values(MaxLen - 1), "float") }

RECURSIVE Nested(_)
Nested(d) ==
    IF d = 0 THEN Leaves \cup { Map(<<>>, <<>>), PyList(<<>>) }
    ELSE LET C == Nested(d - 1)
         IN  C \cup { Map(<<"a">>, <<c>>) : c \in C }
               \cup { PyList(<<c>>) : c \in C }
               \cup { Map(<<"a", "b">>, <<c, l>>) : c \in C, l \in PairLeaves }
               \cup { PyList(<<c, l>>) : c \in C, l \in PairLeaves }
               \cup { PyList(<<c, Scalar(7)>>) : c \in LeavesOf(MaxLen) }
Containers == Nested(MaxDepth)

Masks == { [k \in 1..MaxLen |-> IF k \in S THEN 1 ELSE 0] : S \in SUBSET (1..MaxLen) }
Positions == { <<0>>, <<1, 0>>, Iota(MaxLen, 0), <<MaxLen>> }
Indices ==
    { Scalar(n) : n \in {0, MaxLen - 1, MaxLen} }
      \cup { Slice(0, MaxLen), Slice(1, MaxLen), Slice(0, 1) }
      \cup { Arr(m, "bool", 1) : m \in Masks }
      \cup { Arr(p, dt, 1) : p \in Positions,
                             dt \in {"int64", "int32", "int16", "uint8", "float64"} }
      \cup { ScalarList(p) : p \in Positions }

Labels(n) == [k \in 1..n |-> k % 2]

\* the data a Dataset is built on and a CVSplit is called with
DataX ==
    { NoneV, Arr(Values(MaxLen), "int64", 1), Frame(Values(MaxLen)),
      Tens(Values(MaxLen), "float"), ScalarList(Values(MaxLen)),
      Map(<<"a">>, <<Arr(Values(MaxLen), "int64", 1)>>),
      Map(<<"a", "b">>, <<Arr(Values(MaxLen), "int64", 1), Tens(Values(MaxLen), "float")>>),
      Map(<<"a">>, <<ScalarList(Values(MaxLen))>>),
      Map(<<"a">>, <<Map(<<"b">>, <<Arr(Values(MaxLen), "int64", 1)>>)>>),
      PyList(<<Arr(Values(MaxLen), "int64", 1), Tens(Values(MaxLen), "float")>>),
      PyList(<<Arr(Values(MaxLen), "int64", 1), Arr(Values(MaxLen - 1), "int64", 1)>>),
      Map(<<>>, <<>>) }
DataY ==
    { NoneV, Arr(Labels(MaxLen), "int64", 1), Arr(Labels(MaxLen), "float64", 1),
      Arr(Labels(MaxLen - 1), "int64", 1), Frame(Labels(MaxLen)),
      Tens(Labels(MaxLen), "long"), ScalarList(Labels(MaxLen)),
      Map(<<"t">>, <<Arr(Labels(MaxLen), "int64", 1)>>) }
Lengths == { NoneV, Scalar(0), Scalar(MaxLen), Scalar(MaxLen + 1) }
ItemIndices ==
    { Scalar(0), Slice(0, MaxLen - 1), Arr(<<1, 0>>, "int64", 1),
      Arr(<<0>>, "int32", 1), Arr(Labels(MaxLen), "bool", 1), ScalarList(<<0, 1>>) }

UserPairs(dt) ==
    << Pair(<<MaxLen - 1>>, Iota(MaxLen - 1, 0), dt),
       Pair(Iota(MaxLen - 1, 0), <<MaxLen - 1>>, dt) >>
CvSpecs ==
    { NoneV }
      \cup { Scalar(n) : n \in -1..MaxLen }
      \cup { PyFloat(t) : t \in {-5, 0, 2, 5, 10, 15, 20} }
      \cup { Splitter("KFold", 2, 0, <<>>), Splitter("StratifiedKFold", 2, 0, <<>>),
             Splitter("ShuffleSplit", 10, 5, <<>>),
             Splitter("StratifiedShuffleSplit", 10, 5, <<>>) }
      \cup { Iterable(UserPairs(dt)) : dt \in {"int64", "int32"} }
      \cup { Iterable(<<>>) }

----------------------------------------------------------------------------
(* The calls *)

Init ==
    /\ obj = NoneV
    /\ op = "idle"
    /\ argX = NoneV /\ argY = NoneV /\ argI = NoneV
    /\ ret = NoneV
    /\ trace = NoTrace
    /\ torch_list_index \in BOOLEAN

\* CVSplit(cv, stratified)
NewCVSplit ==
    /\ op = "idle"
    /\ \E cv \in CvSpecs, stratified \in BOOLEAN :
        /\ op' = "CVSplit"
        /\ argX' = cv
        /\ argY' = [tag |-> "Bool", b |-> stratified]
        /\ \E r \in {CVSplit_init(cv, stratified)} :
            /\ ret' = r
            /\ obj' = IF IsErr(r) THEN NoneV ELSE r
    /\ UNCHANGED <<argI, trace, torch_list_index>>

\* cvsplit(X, y)
CallSplit ==
    /\ op = "idle"
    /\ obj.tag = "CVSplit"
    /\ \E X \in DataX, y \in DataY, seed \in 1..MaxSeed :
        /\ op' = "split"
        /\ argX' = X
        /\ argY' = y
        /\ argI' = Scalar(seed)
        /\ \E r \in {CVSplit_call(obj, X, y, seed)} :
            /\ ret' = r.ret
            /\ trace' = r.trace
    /\ UNCHANGED <<obj, torch_list_index>>

\* Dataset(X, y, length=length)
NewDataset ==
    /\ op = "idle"
    /\ \E X \in DataX \ {NoneV}, y \in DataY, length \in Lengths :
        /\ op' = "Dataset"
        /\ argX' = X
        /\ argY' = y
        /\ argI' = length
        /\ \E r \in {Dataset_init(X, y, FALSE, length)} :
            /\ ret' = r
            /\ obj' = IF IsErr(r) THEN NoneV ELSE r
    /\ UNCHANGED <<trace, torch_list_index>>

\* len(dataset)
CallLen ==
    /\ op = "idle"
    /\ obj.tag = "Dataset"
    /\ op' = "len"
    /\ ret' = Dataset_len(obj)
    /\ UNCHANGED <<obj, argX, argY, argI, trace, torch_list_index>>

\* dataset[i]
CallGetItem ==
    /\ op = "idle"
    /\ obj.tag = "Dataset"
    /\ \E i \in ItemIndices :
        /\ op' = "getitem"
        /\ argI' = i
        /\ ret' = Dataset_getitem(obj, i)
    /\ UNCHANGED <<obj, argX, argY, trace, torch_list_index>>

\* get_len(data): a module-level function, called with no object in use
CallGetLen ==
    /\ op = "idle"
    /\ obj = NoneV
    /\ \E data \in Containers :
        /\ op' = "get_len"
        /\ argX' = data
        /\ ret' = get_len(data)
    /\ UNCHANGED <<obj, argY, argI, trace, torch_list_index>>

\* multi_indexing(data, i): a module-level function, called with no object in use
CallMultiIndexing ==
    /\ op = "idle"
    /\ obj = NoneV
    /\ \E data \in Containers, i \in Indices :
        /\ op' = "multi_indexing"
        /\ argX' = data
        /\ argI' = i
        /\ ret' = multi_indexing(data, i)
    /\ UNCHANGED <<obj, argY, trace, torch_list_index>>

\* the caller takes the result; the core keeps nothing of a call
Return ==
    /\ op # "idle"
    /\ op' = "idle"
    /\ argX' = NoneV /\ argY' = NoneV /\ argI' = NoneV
    /\ ret' = NoneV
    /\ trace' = NoTrace
    /\ UNCHANGED <<obj, torch_list_index>>

\* the object goes out of use: objects are constructed per use
Discard ==
    /\ op = "idle"
    /\ obj # NoneV
    /\ obj' = NoneV
    /\ UNCHANGED <<op, argX, argY, argI, ret, trace, torch_list_index>>

Next ==
    \/ NewCVSplit
    \/ CallSplit
    \/ NewDataset
    \/ CallLen
    \/ CallGetItem
    \/ CallGetLen
    \/ CallMultiIndexing
    \/ Return
    \/ Discard

Spec == Init /\ [][Next]_vars

----------------------------------------------------------------------------------------------------------------------------------------
(* Properties *)

TypeOK ==
    op \in {"idle", "CVSplit", "split", "Dataset", "len", "getitem", "get_len",
            "multi_indexing"}

\* The rows a container holds, whatever type carries them; a list of plain
\* numbers is one leaf.
RECURSIVE Rows(_)
Rows(c) ==
    IF c.tag \in {"Array", "Tensor", "Frame", "Series"}
    THEN [tag |-> "Rows", data |-> c.data]
    ELSE IF c.tag = "List" /\ IsIntList(c) THEN [tag |-> "Rows", data |-> IdxList(c)]
    ELSE IF c.tag = "List" THEN PyList([k \in 1..Len(c.items) |-> Rows(c.items[k])])
    ELSE IF c.tag = "Mapping" THEN Map(c.keys, [k \in 1..Len(c.vals) |-> Rows(c.vals[k])])
    ELSE c

\* The rows at positions ix of every leaf.
RECURSIVE PickRows(_, _)
PickRows(r, ix) ==
    IF r.tag = "Rows" THEN [tag |-> "Rows", data |-> [k \in 1..Len(ix) |-> r.data[ix[k] + 1]]]
    ELSE IF r.tag = "List" THEN PyList([k \in 1..Len(r.items) |-> PickRows(r.items[k], ix)])
    ELSE IF r.tag = "Mapping" THEN Map(r.keys, [k \in 1..Len(r.vals) |-> PickRows(r.vals[k], ix)])
    ELSE r

Regular(x) == x.tag \in {"None", "Array", "Frame"}
StratifiedKinds == {"StratifiedKFold", "StratifiedShuffleSplit"}
Returned == op = "split" /\ ret.tag = "Tuple4"

\* the rows of X as the call serves them: the fallback path serves a frame
\* column by column
RowsOfX ==
    IF trace.path = "special" /\ argX.tag = "Frame"
    THEN Map(<<"col">>, <<Rows(argX)>>)
    ELSE Rows(argX)

\* what the resolved splitter yields for the arguments the call gave it
Yielded ==
    SplitPairs(trace.cv,
               IF trace.path = "regular" THEN argX
               ELSE Arr(Iota(get_len(argX).v, 0), DefaultIntDtype, 1),
               trace.labels, argI.v).items

\* C1: a call split(X, y) pulls exactly one pair from the splitter, the first
\* it yields, on the regular and on the fallback path, and the four partitions
\* it returns hold the rows of X and of y at that pair's train and validation
\* positions; no call pulls a second pair.
C1_FirstPairOnly ==
    op = "split" =>
        /\ trace.asked <= 1
        /\ trace.taken <= 1
        /\ ret.tag = "Tuple4" =>
            /\ trace.asked = 1
            /\ trace.taken = 1
            /\ trace.pair.train = Yielded[1].train
            /\ trace.pair.valid = Yielded[1].valid
            /\ Rows(ret.X_train) = PickRows(RowsOfX, Yielded[1].train.data)
            /\ Rows(ret.X_valid) = PickRows(RowsOfX, Yielded[1].valid.data)
            /\ argY # NoneV =>
                /\ Rows(ret.y_train) = PickRows(Rows(argY), Yielded[1].train.data)
                /\ Rows(ret.y_valid) = PickRows(Rows(argY), Yielded[1].valid.data)

\* a fallback call that returned, on a splitter whose second pair differs
C1_Witness ==
    /\ Returned
    /\ trace.path = "special"
    /\ argY # NoneV
    /\ Len(Yielded) >= 2
    /\ Yielded[2].train # Yielded[1].train

\* a regular call that returned, on a splitter whose second pair differs
C1_WitnessRegular ==
    /\ Returned
    /\ trace.path = "regular"
    /\ argY # NoneV
    /\ Len(Yielded) >= 2
    /\ Yielded[2].train # Yielded[1].train

IsZeros(t, n) ==
    t.tag = "Tensor" /\ Len(t.data) = n /\ \A k \in 1..Len(t.data) : t.data[k] = 0

\* C2: when X and y are both regular the y partitions are None exactly when y
\* is None; when X or y is irregular they are never None, and for y = None
\* they are zero-filled, as long as the train and the validation partition.
C2_TargetPartitions ==
    Returned =>
        /\ (Regular(argX) /\ Regular(argY)) =>
            /\ ret.y_train = NoneV <=> argY = NoneV
            /\ ret.y_valid = NoneV <=> argY = NoneV
        /\ ~(Regular(argX) /\ Regular(argY)) =>
            /\ ret.y_train # NoneV
            /\ ret.y_valid # NoneV
            /\ argY = NoneV =>
                /\ IsZeros(ret.y_train, Len(trace.pair.train.data))
                /\ IsZeros(ret.y_valid, Len(trace.pair.valid.data))
                /\ get_len(ret.X_train) = Scalar(Len(ret.y_train.data))
                /\ get_len(ret.X_valid) = Scalar(Len(ret.y_valid.data))

\* a fallback call without a target that returned placeholders
C2_Witness ==
    /\ Returned
    /\ ~Regular(argX)
    /\ argY = NoneV
    /\ Len(ret.y_train.data) # Len(ret.y_valid.data)

\* a regular call without a target
C2_WitnessRegular ==
    /\ Returned
    /\ Regular(argX)
    /\ argY = NoneV
    /\ ret.y_train = NoneV

\* C3: a call on a splitter with stratified=True whose resolved splitter is not
\* stratified-capable raises the stratification error before the splitter is
\* asked for a pair and before anything is indexed; with stratified=True and a
\* non-integral number as spec the resolved splitter is the stratified shuffle
\* split and the error is not raised.
C3_StratificationError ==
    (op = "split" /\ obj.stratified) =>
        /\ (trace.cv.tag = "Splitter" /\ trace.cv.kind \notin StratifiedKinds) =>
            /\ ret = NotStratifiable
            /\ trace.asked = 0
            /\ trace.taken = 0
            /\ trace.indexed = 0
        /\ (ret = NotStratifiable) =>
            (trace.cv.tag = "Splitter" /\ trace.cv.kind \notin StratifiedKinds)
        /\ (obj.cv.tag = "Float" /\ obj.cv.tenths % 10 # 0) =>
            /\ ret # NotStratifiable
            /\ trace.cv.tag = "Splitter" => trace.cv.kind = "StratifiedShuffleSplit"

\* stratification asked of a fold count whose target is not a class label
C3_Witness ==
    /\ op = "split"
    /\ obj.stratified
    /\ obj.cv.tag = "Scalar"
    /\ argY # NoneV
    /\ ret = NotStratifiable

\* stratification asked of a fraction
C3_WitnessFraction ==
    /\ Returned
    /\ obj.stratified
    /\ obj.cv.tag = "Float"
    /\ trace.cv.kind = "StratifiedShuffleSplit"

NonPositiveNumber(spec) ==
    \/ spec.tag = "Scalar" /\ spec.v <= 0
    \/ spec.tag = "Float" /\ spec.tenths <= 0

\* C4: constructing a splitter fails, with the configuration error, exactly
\* when spec is a number <= 0; otherwise the object holds the given spec and
\* flag; no splitter in use holds a non-positive number.
C4_Construction ==
    /\ op = "CVSplit" =>
        /\ ret = NotPositive <=> NonPositiveNumber(argX)
        /\ IsErr(ret) => (ret = NotPositive /\ obj = NoneV)
        /\ ~IsErr(ret) =>
            /\ ret.tag = "CVSplit"
            /\ ret.cv = argX
            /\ ret.stratified = argY.b
            /\ obj = ret
    /\ obj.tag = "CVSplit" => ~NonPositiveNumber(obj.cv)

\* the construction with spec 0 was refused
C4_Witness ==
    /\ op = "CVSplit"
    /\ argX = Scalar(0)
    /\ ret = NotPositive

\* a splitter was constructed on a fraction
C4_WitnessAccepted ==
    /\ op = "CVSplit"
    /\ argX.tag = "Float"
    /\ ret.tag = "CVSplit"

\* C5: a Dataset built without an explicit length has the length of X when y
\* is None, the common length when y is present and as long as X, and is not
\* built, with the mismatch error, when the two lengths differ.
C5_DatasetLength ==
    /\ (op = "Dataset" /\ argI = NoneV /\ ~IsErr(get_len(argX))) =>
        /\ argY = NoneV => (ret.tag = "Dataset" /\ obj = ret)
        /\ (argY # NoneV /\ get_len(argY) = get_len(argX)) =>
            (ret.tag = "Dataset" /\ obj = ret)
        /\ (argY # NoneV /\ ~IsErr(get_len(argY)) /\ get_len(argY) # get_len(argX)) =>
            (ret = LengthMismatch /\ obj = NoneV)
    /\ (op = "len" /\ obj._length = Unset) =>
        /\ ret = get_len(obj.X)
        /\ obj.y # NoneV => ret = get_len(obj.y)

\* the length of a Dataset with a target was asked
C5_Witness ==
    /\ op = "len"
    /\ obj._length = Unset
    /\ obj.y # NoneV
    /\ ret = Scalar(MaxLen)

\* a Dataset on X and y of different lengths was refused
C5_WitnessMismatch ==
    /\ op = "Dataset"
    /\ argI = NoneV
    /\ ret = LengthMismatch

\* C6: a Dataset built with an explicit length L is built without resolving or
\* comparing the lengths of X and y, and its length() is L.
C6_ExplicitLength ==
    /\ (op = "Dataset" /\ argI # NoneV) => (ret.tag = "Dataset" /\ obj = ret)
    /\ (op = "len" /\ obj._length # Unset) => ret = obj._length

IsContainer(x) == x.tag \in {"Array", "Tensor", "Frame", "Series", "Mapping", "List"}

\* the lengths of the leaves: a Mapping's values and a List's elements are
\* descended into; a List with an element that is no container is one leaf
RECURSIVE LeafLens(_)
LeafLens(c) ==
    IF c.tag = "Mapping" THEN UNION {LeafLens(c.vals[k]) : k \in 1..Len(c.vals)}
    ELSE IF c.tag = "List" THEN
        IF \E k \in 1..Len(c.items) : ~IsContainer(c.items[k]) THEN {Len(c.items)}
        ELSE UNION {LeafLens(c.items[k]) : k \in 1..Len(c.items)}
    ELSE {Len(c.data)}

\* C7: get_len returns n when the leaves of a nested container all have
\* length n and raises the inconsistent-length error when two leaves differ.
C7_LengthResolver ==
    op = "get_len" =>
        /\ \A n \in 0..(MaxLen + 1) : LeafLens(argX) = {n} => ret = Scalar(n)
        /\ Cardinality(LeafLens(argX)) >= 2 => ret = InconsistentLengths

\* a Mapping in which a List of two equally long leaves is nested
C7_Witness ==
    /\ op = "get_len"
    /\ argX.tag = "Mapping"
    /\ \E k \in 1..Len(argX.vals) :
        argX.vals[k].tag = "List" /\ Cardinality(Range(argX.vals[k].items)) = 2
    /\ ret = Scalar(MaxLen)

\* two leaves of different lengths
C7_WitnessInconsistent ==
    /\ op = "get_len"
    /\ Cardinality(LeafLens(argX)) >= 2
    /\ ret = InconsistentLengths

\* C8: on a Mapping, multi_indexing returns a Mapping with the same keys whose
\* value at each key is multi_indexing of that value, i.e. the full dispatch
\* and not the value's own indexing.
C8_MappingSelect ==
    (op = "multi_indexing" /\ argX.tag = "Mapping" /\ ~IsErr(NormalizeIndex(argI))) =>
        LET rs == [k \in 1..Len(argX.vals) |-> multi_indexing(argX.vals[k], argI)]
        IN  ret = IF HasErr(rs) THEN FirstErr(rs) ELSE Map(argX.keys, rs)

IntegerDtypes == {"int64", "int32", "int16", "uint8"}

\* C9: an array index is rejected with the index-type error exactly when its
\* element type is neither boolean nor an integer type of any width.
C9_IndexType ==
    (op = "multi_indexing" /\ argI.tag = "Array") =>
        (ret = BadIndexType <=> argI.dtype \notin ({"bool"} \cup IntegerDtypes))

\* C10 as stated: whenever the splitter is asked for pairs, it is given labels
\* exactly when the stratified flag is set, on either path.
C10_LabelsIffFlag ==
    (op = "split" /\ trace.asked = 1) => (trace.labels_passed <=> obj.stratified)

\* C10 amended: on the regular path the splitter is given y exactly when the
\* stratified flag is set; on the fallback path it is given the numeric-coerced
\* y exactly when the resolved splitter is of a stratified-capable kind, which
\* includes every call with the flag set.
C10_LabelsAmended ==
    (op = "split" /\ trace.asked = 1) =>
        /\ trace.path = "regular" =>
            /\ trace.labels_passed <=> obj.stratified
            /\ trace.labels = IF obj.stratified THEN argY ELSE NoneV
        /\ trace.path = "special" =>
            /\ trace.labels_passed <=> trace.cv.kind \in StratifiedKinds
            /\ trace.labels = IF trace.cv.kind \in StratifiedKinds
                              THEN to_numpy(argY) ELSE NoneV
        /\ obj.stratified => trace.labels_passed

\* the fallback path gave labels to an explicit stratified splitter although
\* the flag is not set
C10_Witness ==
    /\ Returned
    /\ trace.path = "special"
    /\ ~obj.stratified
    /\ trace.labels_passed
====
